---- MODULE Spec2Model ----
(***************************************************************************)
(* Model of kcidev/subcommands/results.py: the retrying fetch client, the  *)
(* repository locator, the target resolver and the filter engine of the    *)
(* `results` command group.                                                *)
(***************************************************************************)
EXTENDS Integers, Sequences, FiniteSets, TLC

VARIABLES
    \* dashboard_api_fetch
    f_pc,          \* "idle" | "loop" | "done"
    max_retries,   \* the max_retries parameter
    retries,       \* the local retry counter
    attempts,      \* number of requests.get calls made so far
    hist,          \* statuses of the responses so far (0: transport failure)
    r,             \* the last response
    outcome,       \* how the call ended
    returned       \* the value returned (the attempt whose body it is), 0 if none

fetchVars == <<f_pc, max_retries, retries, attempts, hist, r, outcome, returned>>

VARIABLES
    \* get_folder_repository
    l_pc,            \* "idle" | "start" | "worktree" | "config" | "done"
    git_folder,      \* the git_folder parameter ("None" when absent)
    branch_arg,      \* the branch parameter ("None" when absent)
    cwd,             \* the process working directory
    cwd_at_call,     \* the working directory when the function was called
    current_folder,
    previous_folder,
    repo,            \* the checkout and the git binary, as the function finds them
    l_outcome,       \* how the call ended
    l_result         \* the (git_url, branch_name, last_commit_hash) returned

locVars == <<l_pc, git_folder, branch_arg, cwd, cwd_at_call, current_folder,
             previous_folder, repo, l_outcome, l_result>>

VARIABLES
    \* set_giturl_branch_commit and the fetch of the command that called it
    s_pc,        \* "idle" | "gate" | "locating" | "latest" | "fetch" | "done"
    origin,
    giturl,
    branch,      \* "None" when absent
    commit,      \* "None" when absent
    latest,
    supplied,    \* the giturl, branch and commit given on the command line
    listing,     \* the tree-fast listing, once obtained
    request,     \* the tree/{commit}/... fetch issued, if any
    s_outcome

resVars == <<s_pc, origin, giturl, branch, commit, latest, supplied, listing,
             request, s_outcome>>

VARIABLES
    \* parameters and loop state common to cmd_builds and cmd_tests
    download_logs,
    count,
    use_json,
    n_records,   \* number of records in the data
    idx,         \* number of records the loop has taken
    log_path,    \* log_path of the record the loop took last ("None": not set)
    log_result,  \* how the log download of that record went ("None": not run)
    printed      \* the records written as text, by position

cmdVars == <<download_logs, count, use_json, n_records, idx, log_path,
             log_result, printed>>

VARIABLES
    \* cmd_tests
    t_pc,            \* "idle" | "loop" | "done"
    status_filter,
    filter_data,     \* yaml.safe_load(filter), NoFilter when there is no file
    pool,            \* the records the dashboard may hold
    test,            \* the record the loop took last
    survived,        \* whether that record passed every filter
    filtered_tests,
    tests,           \* the records appended for the JSON output
    seen,            \* how many PASS, FAIL and other records the loop has taken
    t_outcome

testVars == <<t_pc, status_filter, filter_data, pool, test, survived,
              filtered_tests, tests, seen, t_outcome>>

VARIABLES
    \* cmd_builds
    b_pc,            \* "idle" | "start" | "loop" | "done"
    status,
    build,           \* `valid` of the record the loop took last
    valids,          \* `valid` of every record taken so far
    filtered_builds,
    builds,          \* the records appended for the JSON output
    b_outcome

buildVars == <<b_pc, status, build, valids, filtered_builds, builds, b_outcome>>

VARIABLES
    \* repository_url_cleaner
    c_pc,        \* "idle" | "call" | "done"
    remote,      \* the remote url given, by what it names
    cleaned      \* the url returned

cleanVars == <<c_pc, remote, cleaned>>

vars == <<fetchVars, locVars, resVars, cmdVars, testVars, buildVars, cleanVars>>

-----------------------------------------------------------------------------
(* repository_url_cleaner *)

\* A URL as urllib.parse.urlsplit returns it: scheme, userinfo, hostname, port
\* (0: none) and path.  An scp-like remote has no scheme and no netloc: the
\* whole text is its path.
Url(scheme, cred, host, port, path) ==
    [scheme |-> scheme, cred |-> cred, host |-> host, port |-> port, path |-> path]

NoUrl == Url("None", "", "", 0, "")

UrlPlain == Url("https", "", "host", 0, "/org/repo.git")
UrlCreds == Url("https", "user:pass", "host", 8443, "/org/repo.git")
UrlDefaultPort == Url("https", "", "host", 443, "/org/repo.git")
UrlGitScheme == Url("git", "", "host", 0, "/org/repo.git")
UrlScp == Url("", "", "", 0, "git@host:org/repo.git")

RawUrls == {UrlPlain, UrlCreds, UrlDefaultPort, UrlGitScheme, UrlScp}

\* The paths of the model that begin with a slash.
AbsolutePaths == {"/org/repo.git"}

\* urllib.parse.urlunsplit puts a slash before a path that lacks one.
UnsplitPath(path) ==
    IF path # "" /\ path \notin AbsolutePaths THEN "/" \o path ELSE path

repository_url_cleaner(url) ==
    Url("https", "", url.host, IF url.port # 0 THEN url.port ELSE 0,
        UnsplitPath(url.path))

\* A remote as git prints it: in URL form (scheme://[cred@]host[:port]path) or
\* in scp-like form ([cred@]host:path), by the parts it names.
Remote(form, scheme, cred, host, port, path) ==
    [form |-> form, scheme |-> scheme, cred |-> cred, host |-> host,
     port |-> port, path |-> path]

NoRemote == Remote("None", "", "", "", 0, "")

RemoteSchemes == {"https", "http", "git", "ssh"}

RemoteCreds == {"", "git", "user:pass"}

RemoteHosts == {"host", "git.kernel.org"}

RemotePorts == {0, 443, 8443}

Remotes ==
    {Remote("url", sc, cr, ho, po, "/org/repo.git") :
        sc \in RemoteSchemes, cr \in RemoteCreds, ho \in RemoteHosts,
        po \in RemotePorts}
    \cup
    {Remote("scp", "", cr, ho, 0, "org/repo.git") :
        cr \in {"", "git"}, ho \in RemoteHosts}

\* urllib.parse.urlsplit on the text of a remote.  The text of an scp-like
\* remote has no `//`: with a user it has no scheme either and is all path;
\* without one the host before the colon is read as the scheme.
urlsplit(rem) ==
    IF rem.form = "url"
    THEN Url(rem.scheme, rem.cred, rem.host, rem.port, rem.path)
    ELSE IF rem.cred # ""
    THEN Url("", "", "", 0, rem.cred \o "@" \o rem.host \o ":" \o rem.path)
    ELSE Url(rem.host, "", "", 0, rem.path)

\* repository_url_cleaner called on one remote.
CleanUrl ==
    /\ c_pc = "call"
    /\ cleaned' = repository_url_cleaner(urlsplit(remote))
    /\ c_pc' = "done"
    /\ UNCHANGED remote

CleanIdle == c_pc = "idle" /\ remote = NoRemote /\ cleaned = NoUrl

-----------------------------------------------------------------------------
(* get_folder_repository *)

Folders == {"/", "/home", "/repo", "/repo/sub"}

NotAFolder == "/nofolder"

Parent(f) == IF f = "/repo/sub" THEN "/repo" ELSE "/"

\* os.path.isdir
IsDir(f) == f \in Folders

RECURSIVE Ancestors(_)
Ancestors(f) == IF f = "/" THEN {"/"} ELSE {f} \cup Ancestors(Parent(f))

\* is_inside_work_tree: `git rev-parse --is-inside-work-tree` run in the
\* working directory prints something exactly inside a checkout.
is_inside_work_tree(dir) == Ancestors(dir) \cap repo.gitDirs # {}

\* `while not os.path.exists(dot_git_folder): current_folder = join(current_folder, "..")`
RECURSIVE WalkUp(_)
WalkUp(f) == IF f \in repo.gitDirs THEN f ELSE WalkUp(Parent(f))

NoResult == [giturl |-> NoUrl, branch |-> "None", commit |-> "None"]

Truthy(s) == s # "None" /\ s # ""

LocEnd(o, res, dir) ==
    /\ l_pc' = "done"
    /\ l_outcome' = o
    /\ l_result' = res
    /\ cwd' = dir

\* Lines 139-151: pick the folder, remember the working directory, enter it.
LocStart ==
    /\ l_pc = "start"
    /\ LET folder == IF Truthy(git_folder) THEN git_folder ELSE cwd IN
         /\ current_folder' = folder
         /\ previous_folder' = cwd
         /\ IF IsDir(folder)
            THEN /\ cwd' = folder
                 /\ l_pc' = "worktree"
                 /\ UNCHANGED <<l_outcome, l_result>>
            ELSE LocEnd("abort_not_folder", NoResult, cwd)
    /\ UNCHANGED <<git_folder, branch_arg, cwd_at_call, repo>>

\* Lines 152-156: ask git whether this is a checkout, walk up to its .git.
LocWorkTree ==
    /\ l_pc = "worktree"
    /\ IF ~repo.gitWorks
       THEN /\ LocEnd("raise_git", NoResult, cwd)
            /\ UNCHANGED current_folder
       ELSE /\ current_folder' = IF is_inside_work_tree(cwd)
                                 THEN WalkUp(current_folder)
                                 ELSE current_folder
            /\ l_pc' = "config"
            /\ UNCHANGED <<l_outcome, l_result, cwd>>
    /\ UNCHANGED <<git_folder, branch_arg, cwd_at_call, previous_folder, repo>>

\* The working directory after git_config.get raised: nothing restores it.
CwdAfterConfigError(dir) == dir

\* Lines 159-191: read the origin url, the branch and the commit, or give up.
LocRead ==
    /\ l_pc = "config"
    /\ IF current_folder \in repo.gitDirs
       THEN IF ~repo.hasOrigin
            THEN LocEnd("raise_config", NoResult, CwdAfterConfigError(cwd))
            ELSE LocEnd("return",
                        [giturl |-> repository_url_cleaner(repo.url),
                         branch |-> IF Truthy(branch_arg) THEN branch_arg
                                    ELSE repo.branch,
                         commit |-> repo.head],
                        previous_folder)
       ELSE LocEnd("abort_not_git", NoResult, previous_folder)
    /\ UNCHANGED <<git_folder, branch_arg, cwd_at_call, current_folder,
                   previous_folder, repo>>

Repos ==
    [gitDirs : {{}, {"/repo"}, {"/"}}, hasOrigin : BOOLEAN, gitWorks : BOOLEAN,
     url : RawUrls, branch : {"", "main"}, head : {"c_head"}]

NoRepo ==
    [gitDirs |-> {}, hasOrigin |-> FALSE, gitWorks |-> FALSE, url |-> NoUrl,
     branch |-> "", head |-> "None"]

-----------------------------------------------------------------------------
(* get_latest_commit, set_giturl_branch_commit and the commands' fetch *)

\* Longest tree-fast listing explored.
MaxTrees == 2

\* Trees of a listing: the i-th tree carries the i-th commit hash.
HashNames == <<"h1", "h2", "h3", "h4", "h5">>

TreeUrls == {UrlPlain, Url("https", "", "host", 8443, "/org/repo.git")}

TreeKeys == [git_repository_url : TreeUrls, git_repository_branch : {"main", "dev"}]

Listings == UNION {[1..n -> TreeKeys] : n \in 0..MaxTrees}

Hash(i) == HashNames[i]

NoHash == "None"

\* Scan of the listing from its end, for the variant below.
RECURSIVE LastMatchFrom(_, _, _, _)
LastMatchFrom(trees, i, url, br) ==
    IF i < 1 THEN NoHash
    ELSE IF trees[i].git_repository_url = url /\ trees[i].git_repository_branch = br
    THEN Hash(i)
    ELSE LastMatchFrom(trees, i - 1, url, br)

\* Variant: the last matching tree of the listing instead of the first.
LastMatch(trees, url, br) == LastMatchFrom(trees, Len(trees), url, br)

RECURSIVE FirstMatchFrom(_, _, _, _)
FirstMatchFrom(trees, i, url, br) ==
    IF i > Len(trees) THEN NoHash
    ELSE IF trees[i].git_repository_url = url /\ trees[i].git_repository_branch = br
    THEN Hash(i)
    ELSE FirstMatchFrom(trees, i + 1, url, br)

\* get_latest_commit's loop over the listing: the hash of the first tree whose
\* url and branch both match, NoHash when it falls through to the Abort.
FirstMatch(trees, url, br) == FirstMatchFrom(trees, 1, url, br)

\* Variant: the gate with `or` in place of `^`.
NeedsLocatorOr(url, br, c, l) ==
    url = NoUrl \/ ~Truthy(br) \/ ~((c # "None") \/ l)

\* `not giturl or not branch or not ((commit != None) ^ latest)`
NeedsLocator(url, br, c, l) ==
    url = NoUrl \/ ~Truthy(br) \/ ~((c # "None") # l)

NoRequest ==
    [endpoint |-> "None", commit |-> "None", origin |-> "None",
     git_url |-> NoUrl, git_branch |-> "None"]

NoListing == [ok |-> FALSE, trees |-> <<>>]

\* Line 506: the gate; line 507 calls get_folder_repository(git_folder, branch).
ResolveGate ==
    /\ s_pc = "gate"
    /\ IF NeedsLocator(giturl, branch, commit, latest)
       THEN /\ s_pc' = "locating"
            /\ l_pc' = "start"
            /\ branch_arg' = branch
            /\ cwd_at_call' = cwd
       ELSE /\ s_pc' = "latest"
            /\ UNCHANGED <<l_pc, branch_arg, cwd_at_call>>
    /\ UNCHANGED <<origin, giturl, branch, commit, latest, supplied, listing,
                   request, s_outcome>>
    /\ UNCHANGED <<git_folder, cwd, current_folder, previous_folder, repo,
                   l_outcome, l_result>>
    /\ UNCHANGED <<fetchVars, cmdVars, testVars, buildVars, cleanVars>>

\* Line 507: the assignment from get_folder_repository's result, or its failure.
ResolveLocated ==
    /\ s_pc = "locating"
    /\ l_pc = "done"
    /\ IF l_outcome = "return"
       THEN /\ giturl' = l_result.giturl
            /\ branch' = l_result.branch
            /\ commit' = l_result.commit
            /\ s_pc' = "latest"
            /\ UNCHANGED s_outcome
       ELSE /\ s_pc' = "done"
            /\ s_outcome' = l_outcome
            /\ UNCHANGED <<giturl, branch, commit>>
    /\ UNCHANGED <<origin, latest, supplied, listing, request>>
    /\ UNCHANGED <<fetchVars, locVars, cmdVars, testVars, buildVars, cleanVars>>

\* Lines 508-510 with get_latest_commit (lines 194-201).
ResolveLatest ==
    /\ s_pc = "latest"
    /\ IF ~latest
       THEN /\ s_pc' = "fetch"
            /\ UNCHANGED <<commit, listing, s_outcome>>
       ELSE \/ /\ s_pc' = "done"
               /\ s_outcome' = "abort_tree_fetch"
               /\ UNCHANGED <<commit, listing>>
            \/ \E trees \in Listings :
                 /\ listing' = [ok |-> TRUE, trees |-> trees]
                 /\ IF FirstMatch(trees, giturl, branch) # NoHash
                    THEN /\ commit' = FirstMatch(trees, giturl, branch)
                         /\ s_pc' = "fetch"
                         /\ UNCHANGED s_outcome
                    ELSE /\ s_pc' = "done"
                         /\ s_outcome' = "abort_tree_not_found"
                         /\ UNCHANGED commit
    /\ UNCHANGED <<origin, giturl, branch, latest, supplied, request>>
    /\ UNCHANGED <<fetchVars, locVars, cmdVars, testVars, buildVars, cleanVars>>

Endpoints == {"summary", "builds", "boots", "tests"}

\* dashboard_fetch_summary / _builds / _boots / _tests: lines 58-103.
ResolveFetch ==
    /\ s_pc = "fetch"
    /\ \E kind \in Endpoints :
         request' = [endpoint |-> kind, commit |-> commit, origin |-> origin,
                     git_url |-> giturl, git_branch |-> branch]
    /\ s_pc' = "done"
    /\ s_outcome' = "fetched"
    /\ UNCHANGED <<origin, giturl, branch, commit, latest, supplied, listing>>
    /\ UNCHANGED <<fetchVars, locVars, cmdVars, testVars, buildVars, cleanVars>>

ResIdle ==
    /\ s_pc = "idle" /\ origin = "None" /\ giturl = NoUrl /\ branch = "None"
    /\ commit = "None" /\ latest = FALSE
    /\ supplied = [giturl |-> NoUrl, branch |-> "None", commit |-> "None"]
    /\ listing = NoListing /\ request = NoRequest /\ s_outcome = "none"

ResolveRepos ==
    [gitDirs : {{}, {"/repo"}}, hasOrigin : BOOLEAN, gitWorks : {TRUE},
     url : {UrlPlain, UrlCreds, UrlScp}, branch : {"", "main"}, head : {"c_head"}]

LocIdle ==
    /\ l_pc = "idle" /\ git_folder = "None" /\ branch_arg = "None"
    /\ cwd = "/" /\ cwd_at_call = "/" /\ current_folder = "None"
    /\ previous_folder = "None" /\ repo = NoRepo
    /\ l_outcome = "none" /\ l_result = NoResult

-----------------------------------------------------------------------------
(* dashboard_api_fetch *)

\* Largest max_retries argument explored.
MaxMaxRetries == 3

RETRY_STATUS_CODES == {429, 500, 502, 503, 504, 507}

\* Statuses the server answers with in the model.
Statuses == RETRY_STATUS_CODES \cup {200, 304, 404}

Bodies == {"data", "error", "invalid"}

NoResp == [transport |-> FALSE, status |-> 0, body |-> "none"]

TransportFailure == [transport |-> TRUE, status |-> 0, body |-> "none"]

Responses ==
    {TransportFailure} \cup
    [transport : {FALSE}, status : Statuses, body : Bodies]

\* Response.raise_for_status(): HTTPError for 4xx and 5xx.
RaisesForStatus(code) == code >= 400 /\ code < 600

\* `while retries <= max_retries`
LoopGuard(n, m) == n <= m

\* Variant: the retry test with `<` in place of `<=`.
CanRetryStrict(n, m) == n < m

\* `if retries <= max_retries: continue`
CanRetry(n, m) == n <= m

\* Variant: the `error` key is never looked at.
NeverHasErrorKey(body) == FALSE

\* `if "error" in data`
HasErrorKey(body) == body = "error"

\* The outcomes of r.json() on a body that is not JSON: a RequestException
\* subclass (caught, Abort) or a plain ValueError (propagates), by library
\* version.
DecodeFailureOutcomes == {"abort_request", "decode_error"}

FetchEnd(resp, o, ret) ==
    /\ f_pc' = "done"
    /\ outcome' = o
    /\ returned' = ret
    /\ retries' = retries

FetchRetry(resp) ==
    /\ retries' = retries + 1
    /\ returned' = returned
    /\ IF CanRetry(retries + 1, max_retries)
       THEN IF LoopGuard(retries + 1, max_retries)
            THEN f_pc' = "loop" /\ outcome' = outcome
            ELSE f_pc' = "done" /\ outcome' = "abort_unexpected"
       ELSE f_pc' = "done" /\ outcome' = "abort_retries"

\* One iteration of the while loop: one GET and the handling of its result.
FetchAttempt ==
    /\ f_pc = "loop"
    /\ LoopGuard(retries, max_retries)
    /\ \E resp \in Responses :
         /\ attempts' = attempts + 1
         /\ hist' = Append(hist, resp.status)
         /\ r' = resp
         /\ IF resp.transport
            THEN FetchEnd(resp, "abort_request", 0)
            ELSE IF resp.status \in RETRY_STATUS_CODES
            THEN FetchRetry(resp)
            ELSE IF RaisesForStatus(resp.status)
            THEN FetchEnd(resp, "abort_request", 0)
            ELSE IF resp.body = "invalid"
            THEN \E o \in DecodeFailureOutcomes : FetchEnd(resp, o, 0)
            ELSE IF HasErrorKey(resp.body)
            THEN FetchEnd(resp, "abort_json_error", 0)
            ELSE FetchEnd(resp, "return", attempts + 1)
    /\ UNCHANGED max_retries
    /\ UNCHANGED <<locVars, resVars, cmdVars, testVars, buildVars, cleanVars>>

FetchIdle ==
    /\ f_pc = "idle" /\ max_retries = 0 /\ retries = 0 /\ attempts = 0
    /\ hist = <<>> /\ r = NoResp /\ outcome = "none" /\ returned = 0

-----------------------------------------------------------------------------
(* Log retrieval inside the loops of cmd_builds and cmd_tests *)

\* What the try block of the log download does: it completes, or requests.get,
\* gzip.decompress or the file write raises.
LogResults == {"ok", "get_failed", "gzip_failed", "write_failed"}

LogOutcomes(download) == IF download THEN LogResults ELSE {"skipped"}

\* Variant: the local reference whatever the download did.
LogPathAlwaysLocal(lr) == "file"

\* log_path after lines 344-355 / 445-456.
LogPath(lr) == IF lr = "ok" THEN "file" ELSE "log_url"

-----------------------------------------------------------------------------
(* cmd_tests and its filters *)

\* Longest data list explored with a filter file.
MaxTests == 2

\* Longest data list explored in count mode without a filter file.
MaxCountLen == 10

TestStatuses == {"PASS", "FAIL", "ERROR", "SKIP", "MISS", "DONE", "NULL"}

StatusChoices == {"all", "pass", "fail", "inconclusive"}

\* str.lower() on a status.
Lower(st) ==
    CASE st = "PASS" -> "pass"
      [] st = "FAIL" -> "fail"
      [] st = "ERROR" -> "error"
      [] st = "SKIP" -> "skip"
      [] st = "MISS" -> "miss"
      [] st = "DONE" -> "done"
      [] st = "NULL" -> "null"

\* Variant: the status compared without lower().
filter_out_by_status_no_lower(st, filter) ==
    IF filter = "all" THEN FALSE
    ELSE IF filter = st THEN FALSE
    ELSE IF filter = "inconclusive"
            /\ st \in {"ERROR", "SKIP", "MISS", "DONE", "NULL"} THEN FALSE
    ELSE TRUE

filter_out_by_status(st, filter) ==
    IF filter = "all" THEN FALSE
    ELSE IF filter = Lower(st) THEN FALSE
    ELSE IF filter = "inconclusive"
            /\ st \in {"ERROR", "SKIP", "MISS", "DONE", "NULL"} THEN FALSE
    ELSE TRUE

\* A test or boot record: status, misc.platform, environment_compatible (None
\* and [] both as <<>>) and path.
TestRecord(st, pl, co, pa) ==
    [status |-> st, platform |-> pl, compat |-> co, path |-> pa]

NoTest == TestRecord("None", "", <<>>, "")

Platforms == {"qemu-x86", "qemu-arm"}

Compatibles == {<<>>, <<"qemu-x86">>, <<"other">>}

Paths == {"boot", "network"}

FilterPool ==
    {TestRecord(st, pl, co, pa) :
        st \in {"PASS", "ERROR"}, pl \in Platforms, co \in Compatibles, pa \in Paths}

CountPool == {TestRecord(st, "qemu-x86", <<>>, "boot") : st \in TestStatuses}

\* yaml.safe_load(filter): the keys of the document and its two lists.
FilterData(keys) ==
    [file |-> TRUE, keys |-> keys,
     hardware |-> IF "hardware" \in keys THEN {"qemu-x86"} ELSE {},
     test |-> IF "test" \in keys THEN {"boot"} ELSE {}]

NoFilter == [file |-> FALSE, keys |-> {}, hardware |-> {}, test |-> {}]

Filters == {NoFilter} \cup {FilterData(k) : k \in SUBSET {"hardware", "test"}}

\* Truth value of filter_data: None and an empty mapping are false.
FilterTruthy(fd) == fd.file /\ fd.keys # {}

\* Variant: the compatibles are not consulted.
filter_out_by_hardware_platform_only(t, fd) ==
    IF "hardware" \notin fd.keys THEN "KeyError"
    ELSE IF t.platform \in fd.hardware THEN "False"
    ELSE "True"

\* "KeyError" when filter_data has no `hardware` key.
filter_out_by_hardware(t, fd) ==
    IF "hardware" \notin fd.keys THEN "KeyError"
    ELSE IF t.platform \in fd.hardware THEN "False"
    ELSE IF \E i \in 1..Len(t.compat) : t.compat[i] \in fd.hardware THEN "False"
    ELSE "True"

\* "KeyError" when filter_data has no `test` key.
filter_out_by_test(t, fd) ==
    IF "test" \notin fd.keys THEN "KeyError"
    ELSE IF t.path \in fd.test THEN "False"
    ELSE "True"

\* Lines 436-443: "skip" (continue), "keep", or the KeyError that ends the command.
TestVerdict(t, sf, fd) ==
    IF filter_out_by_status(t.status, sf) THEN "skip"
    ELSE IF ~FilterTruthy(fd) THEN "keep"
    ELSE IF filter_out_by_hardware(t, fd) = "KeyError" THEN "KeyError"
    ELSE IF filter_out_by_hardware(t, fd) = "True" THEN "skip"
    ELSE IF filter_out_by_test(t, fd) = "KeyError" THEN "KeyError"
    ELSE IF filter_out_by_test(t, fd) = "True" THEN "skip"
    ELSE "keep"

\* Bookkeeping of the statuses of the records taken, by class.
Tally(s, st) ==
    IF st = "PASS" THEN [s EXCEPT !.pass = @ + 1]
    ELSE IF st = "FAIL" THEN [s EXCEPT !.fail = @ + 1]
    ELSE [s EXCEPT !.inconclusive = @ + 1]

\* One iteration of `for test in data` (lines 435-496).
TestsStep ==
    /\ t_pc = "loop"
    /\ idx < n_records
    /\ \E rec \in pool, lr \in LogOutcomes(download_logs) :
         /\ idx' = idx + 1
         /\ test' = rec
         /\ seen' = Tally(seen, rec.status)
         /\ LET verdict == TestVerdict(rec, status_filter, filter_data)
                entry == [pos |-> idx + 1, log |-> LogPath(lr)]
            IN  /\ survived' = (verdict = "keep")
                /\ log_path' = IF verdict = "keep" THEN LogPath(lr) ELSE "None"
                /\ log_result' = IF verdict = "keep" THEN lr ELSE "None"
                /\ t_pc' = IF verdict = "KeyError" THEN "done" ELSE "loop"
                /\ t_outcome' = IF verdict = "KeyError" THEN "KeyError" ELSE t_outcome
                /\ filtered_tests' =
                      IF verdict = "keep" /\ count THEN filtered_tests + 1
                      ELSE filtered_tests
                /\ tests' =
                      IF verdict = "keep" /\ ~count /\ use_json
                      THEN Append(tests, entry) ELSE tests
                /\ printed' =
                      IF verdict = "keep" /\ ~count /\ ~use_json
                      THEN Append(printed, entry) ELSE printed
    /\ UNCHANGED <<download_logs, count, use_json, n_records>>
    /\ UNCHANGED <<status_filter, filter_data, pool>>
    /\ UNCHANGED <<fetchVars, locVars, resVars, buildVars, cleanVars>>

\* Lines 497-502: the loop is over, the count or the list is written.
TestsFinish ==
    /\ t_pc = "loop"
    /\ idx = n_records
    /\ t_pc' = "done"
    /\ t_outcome' = "ok"
    /\ UNCHANGED <<status_filter, filter_data, pool, test, survived,
                   filtered_tests, tests, seen>>
    /\ UNCHANGED <<fetchVars, locVars, resVars, cmdVars, buildVars, cleanVars>>

NoSeen == [pass |-> 0, fail |-> 0, inconclusive |-> 0]

TestIdle ==
    /\ t_pc = "idle" /\ status_filter = "all" /\ filter_data = NoFilter
    /\ pool = {} /\ test = NoTest /\ survived = FALSE /\ filtered_tests = 0
    /\ tests = <<>> /\ seen = NoSeen /\ t_outcome = "none"

CmdIdle ==
    /\ download_logs = FALSE /\ count = FALSE /\ use_json = FALSE
    /\ n_records = 0 /\ idx = 0 /\ log_path = "None" /\ log_result = "None"
    /\ printed = <<>>

-----------------------------------------------------------------------------
(* cmd_builds *)

\* Longest builds list explored.
MaxBuilds == 3

\* build["valid"]: True, False or None.
Valids == {"True", "False", "None"}

PyBool(b) == IF b THEN "True" ELSE "False"

\* Variant: without the `valid == None` test of line 334.
BuildSkippedNullKept(v, st) ==
    st # "all" /\ (v = PyBool(st = "fail") \/ ~(v = PyBool(st = "pass")))

\* Lines 334-342: the three `continue`s.
BuildSkipped(v, st) ==
    \/ v = "None"
    \/ st # "all" /\ (v = PyBool(st = "fail") \/ ~(v = PyBool(st = "pass")))

\* create_build_json and lines 370-373: "PASS" if build["valid"] else "FAIL".
BuildLabel(v) == IF v = "True" THEN "PASS" ELSE "FAIL"

\* Lines 325-330: no per-record view of inconclusive builds.
BuildsStart ==
    /\ b_pc = "start"
    /\ IF status = "inconclusive"
       THEN b_pc' = "done" /\ b_outcome' = "no_information"
       ELSE b_pc' = "loop" /\ b_outcome' = b_outcome
    /\ UNCHANGED <<status, build, valids, filtered_builds, builds>>
    /\ UNCHANGED <<fetchVars, locVars, resVars, cmdVars, testVars, cleanVars>>

\* One iteration of `for build in data["builds"]` (lines 333-380).
BuildsStep ==
    /\ b_pc = "loop"
    /\ idx < n_records
    /\ \E v \in Valids, lr \in LogOutcomes(download_logs) :
         /\ idx' = idx + 1
         /\ build' = v
         /\ valids' = Append(valids, v)
         /\ LET keep == ~BuildSkipped(v, status)
                entry == [pos |-> idx + 1, status |-> BuildLabel(v),
                          log |-> LogPath(lr)]
            IN  /\ log_path' = IF keep THEN LogPath(lr) ELSE "None"
                /\ log_result' = IF keep THEN lr ELSE "None"
                /\ filtered_builds' =
                      IF keep /\ count THEN filtered_builds + 1
                      ELSE filtered_builds
                /\ builds' =
                      IF keep /\ ~count /\ use_json
                      THEN Append(builds, entry) ELSE builds
                /\ printed' =
                      IF keep /\ ~count /\ ~use_json
                      THEN Append(printed, entry) ELSE printed
    /\ UNCHANGED <<download_logs, count, use_json, n_records>>
    /\ UNCHANGED <<b_pc, status, b_outcome>>
    /\ UNCHANGED <<fetchVars, locVars, resVars, testVars, cleanVars>>

\* Lines 381-386.
BuildsFinish ==
    /\ b_pc = "loop"
    /\ idx = n_records
    /\ b_pc' = "done"
    /\ b_outcome' = "ok"
    /\ UNCHANGED <<status, build, valids, filtered_builds, builds>>
    /\ UNCHANGED <<fetchVars, locVars, resVars, cmdVars, testVars, cleanVars>>

BuildIdle ==
    /\ b_pc = "idle" /\ status = "all" /\ build = "None" /\ valids = <<>>
    /\ filtered_builds = 0 /\ builds = <<>> /\ b_outcome = "none"

-----------------------------------------------------------------------------
(* Specifications: one per component, the others idle *)

InitLocator ==
    /\ FetchIdle
    /\ ResIdle
    /\ CmdIdle /\ TestIdle /\ BuildIdle /\ CleanIdle
    /\ l_pc = "start"
    /\ git_folder \in {"None", NotAFolder} \cup Folders
    /\ branch_arg \in {"None", "dev"}
    /\ cwd \in Folders
    /\ cwd_at_call = cwd
    /\ current_folder = "None"
    /\ previous_folder = "None"
    /\ repo \in Repos
    /\ l_outcome = "none"
    /\ l_result = NoResult

LocStep ==
    /\ (LocStart \/ LocWorkTree \/ LocRead)
    /\ UNCHANGED <<fetchVars, resVars, cmdVars, testVars, buildVars, cleanVars>>

NextLocator == LocStep

SpecLocator == InitLocator /\ [][NextLocator]_vars

InitFetch ==
    /\ LocIdle
    /\ ResIdle
    /\ CmdIdle /\ TestIdle /\ BuildIdle /\ CleanIdle
    /\ f_pc = "loop"
    /\ max_retries \in 0..MaxMaxRetries
    /\ retries = 0
    /\ attempts = 0
    /\ hist = <<>>
    /\ r = NoResp
    /\ outcome = "none"
    /\ returned = 0

NextFetch == FetchAttempt

SpecFetch == InitFetch /\ [][NextFetch]_vars

InitResolve ==
    /\ FetchIdle
    /\ CmdIdle /\ TestIdle /\ BuildIdle /\ CleanIdle
    /\ s_pc = "gate"
    /\ origin = "maestro"
    /\ giturl \in {NoUrl, UrlPlain, UrlCreds}
    /\ branch \in {"None", "main"}
    /\ commit \in {"None", "c_user"}
    /\ latest \in BOOLEAN
    /\ supplied = [giturl |-> giturl, branch |-> branch, commit |-> commit]
    /\ listing = NoListing
    /\ request = NoRequest
    /\ s_outcome = "none"
    /\ l_pc = "idle"
    /\ git_folder \in {"None", "/repo"}
    /\ branch_arg = "None"
    /\ cwd = "/home"
    /\ cwd_at_call = cwd
    /\ current_folder = "None"
    /\ previous_folder = "None"
    /\ repo \in ResolveRepos
    /\ l_outcome = "none"
    /\ l_result = NoResult

NextResolve ==
    \/ ResolveGate
    \/ LocStep
    \/ ResolveLocated
    \/ ResolveLatest
    \/ ResolveFetch

SpecResolve == InitResolve /\ [][NextResolve]_vars

\* cmd_tests with a filter file or without, in every output mode, and in
\* count mode on longer lists without a filter file.
InitTests ==
    /\ FetchIdle /\ LocIdle /\ ResIdle /\ BuildIdle /\ CleanIdle
    /\ t_pc = "loop"
    /\ status_filter \in StatusChoices
    /\ use_json \in BOOLEAN
    /\ \/ /\ filter_data \in Filters
          /\ pool = FilterPool
          /\ download_logs \in BOOLEAN
          /\ count \in BOOLEAN
          /\ n_records \in 0..MaxTests
       \/ /\ filter_data = NoFilter
          /\ pool = CountPool
          /\ download_logs = FALSE
          /\ count = TRUE
          /\ n_records \in 0..MaxCountLen
    /\ idx = 0
    /\ log_path = "None"
    /\ log_result = "None"
    /\ printed = <<>>
    /\ test = NoTest
    /\ survived = FALSE
    /\ filtered_tests = 0
    /\ tests = <<>>
    /\ seen = NoSeen
    /\ t_outcome = "none"

NextTests == TestsStep \/ TestsFinish

SpecTests == InitTests /\ [][NextTests]_vars

InitBuilds ==
    /\ FetchIdle /\ LocIdle /\ ResIdle /\ TestIdle /\ CleanIdle
    /\ b_pc = "start"
    /\ status \in StatusChoices
    /\ download_logs \in BOOLEAN
    /\ count \in BOOLEAN
    /\ use_json \in BOOLEAN
    /\ n_records \in 0..MaxBuilds
    /\ idx = 0
    /\ log_path = "None"
    /\ log_result = "None"
    /\ printed = <<>>
    /\ build = "None"
    /\ valids = <<>>
    /\ filtered_builds = 0
    /\ builds = <<>>
    /\ b_outcome = "none"

NextBuilds == BuildsStart \/ BuildsStep \/ BuildsFinish

SpecBuilds == InitBuilds /\ [][NextBuilds]_vars

InitCleaner ==
    /\ FetchIdle /\ LocIdle /\ ResIdle /\ CmdIdle /\ TestIdle /\ BuildIdle
    /\ c_pc = "call"
    /\ remote \in Remotes
    /\ cleaned = NoUrl

NextCleaner ==
    CleanUrl /\ UNCHANGED <<fetchVars, locVars, resVars, cmdVars, testVars, buildVars>>

SpecCleaner == InitCleaner /\ [][NextCleaner]_vars

\* cmd_tests and cmd_builds with download_logs set.
InitLogs == (InitTests \/ InitBuilds) /\ download_logs

NextLogs == NextTests \/ NextBuilds

SpecLogs == InitLogs /\ [][NextLogs]_vars

-----------------------------------------------------------------------------
(* Claims on dashboard_api_fetch *)

RetryableSet == {429, 500, 502, 503, 504, 507}

Retryable(resp) == ~resp.transport /\ resp.status \in RetryableSet

AllRetryable(s) == \A i \in 1..Len(s) : s[i] \in RetryableSet

\* C1: a further GET is made exactly when the previous response had a
\* retryable status and fewer than max_retries retries were used before it;
\* so at most max_retries+1 attempts are made; with max_retries = 3, three
\* retryable responses then a 200 return the 4th body, four retryable
\* responses abort after exactly 4 attempts, and any other response ends
\* the fetch at that attempt.
C1_RetryExactlyOnRetryable ==
    /\ attempts <= max_retries + 1
    /\ attempts = Len(hist)
    /\ (f_pc = "loop") =
          (attempts = 0 \/ (Retryable(r) /\ attempts - 1 < max_retries))
    /\ (f_pc = "loop") => LoopGuard(retries, max_retries)
    /\ (f_pc = "done") => outcome # "none"
    /\ (f_pc = "done" /\ Retryable(r)) =>
          (outcome = "abort_retries" /\ attempts = max_retries + 1)
    /\ (max_retries = 3 /\ Len(hist) = 4 /\ AllRetryable(SubSeq(hist, 1, 3))
          /\ r = [transport |-> FALSE, status |-> 200, body |-> "data"])
          => (outcome = "return" /\ returned = 4)
    /\ (max_retries = 3 /\ Len(hist) = 4 /\ AllRetryable(hist))
          => (f_pc = "done" /\ outcome = "abort_retries" /\ attempts = 4)
    /\ (attempts > 0 /\ ~Retryable(r)) =>
          (f_pc = "done" /\ AllRetryable(SubSeq(hist, 1, attempts - 1)))

C1_Witness ==
    /\ max_retries = 3
    /\ attempts = 4
    /\ AllRetryable(hist)
    /\ outcome = "abort_retries"

\* C2: a response whose body carries an `error` key ends the fetch at once,
\* whatever its status, retryable statuses included.
C2_ErrorKeyAbortsWhateverStatus ==
    (attempts > 0 /\ ~r.transport /\ r.body = "error") =>
        (f_pc = "done" /\ outcome \in {"abort_json_error", "abort_request"})

\* C2 (amended): an `error` body ends the fetch at once when the status is
\* not retryable (by the status check for 4xx/5xx, by the error key
\* otherwise); with a retryable status the body is not read and the response
\* is retried like any other while retries remain.
C2_ErrorKeyAbortsUnlessRetryable ==
    (attempts > 0 /\ ~r.transport /\ r.body = "error") =>
        IF r.status \in RetryableSet
        THEN /\ (f_pc = "loop") = (attempts <= max_retries)
             /\ (f_pc = "done") => outcome = "abort_retries"
        ELSE /\ f_pc = "done"
             /\ outcome = IF r.status >= 400 THEN "abort_request"
                           ELSE "abort_json_error"

C2_Witness ==
    /\ attempts = 2
    /\ r = [transport |-> FALSE, status |-> 200, body |-> "error"]
    /\ outcome = "abort_json_error"

-----------------------------------------------------------------------------
(* Claims on get_folder_repository *)

\* C3: get_folder_repository leaves the working directory as it was at the
\* call on every exit path, failures while reading the configuration or
\* running git included.
C3_CwdRestoredOnEveryExit ==
    l_pc = "done" => cwd = cwd_at_call

-----------------------------------------------------------------------------
(* Claims on set_giturl_branch_commit *)

Direct ==
    /\ supplied.giturl # NoUrl
    /\ supplied.branch # "None"
    /\ \/ (supplied.commit # "None" /\ ~latest)
       \/ (supplied.commit = "None" /\ latest)

Gated == s_pc \notin {"idle", "gate"}

Located == Gated /\ l_pc = "done" /\ l_outcome = "return" /\ s_pc # "locating"

\* C4: the locator is skipped, and the supplied giturl and branch kept, exactly
\* when giturl and branch are both supplied and exactly one of {commit
\* supplied, latest} holds; otherwise the locator is called and giturl, branch
\* and commit come from it.
C4_GateSkipsLocatorExactlyOnXor ==
    Gated =>
        /\ (l_pc = "idle") = Direct
        /\ Direct => (giturl = supplied.giturl /\ branch = supplied.branch)
        /\ (Direct /\ s_pc = "latest") => commit = supplied.commit
        /\ Located =>
              /\ giturl = repository_url_cleaner(repo.url)
              /\ branch = IF supplied.branch # "None" THEN supplied.branch
                          ELSE repo.branch
              /\ (s_pc = "latest") => commit = repo.head

C4_Witness ==
    /\ s_pc = "latest"
    /\ supplied.giturl = UrlCreds /\ supplied.branch = "main"
    /\ supplied.commit = "c_user" /\ latest
    /\ giturl = UrlPlain /\ commit = "c_head"

MatchIndexes ==
    {i \in 1..Len(listing.trees) :
        /\ listing.trees[i].git_repository_url = giturl
        /\ listing.trees[i].git_repository_branch = branch}

\* C5: with latest, the commit is the hash of the first tree of the listing
\* whose url and branch equal the resolved giturl and branch, whatever commit
\* was there before; with no such tree the resolution fails with
\* TreeNotFound and no tree/{commit}/... fetch is issued.
C5_LatestTakesFirstMatch ==
    (latest /\ listing.ok) =>
        IF MatchIndexes = {}
        THEN s_pc = "done" /\ s_outcome = "abort_tree_not_found"
             /\ request = NoRequest
        ELSE /\ \E i \in MatchIndexes :
                  /\ \A j \in MatchIndexes : i <= j
                  /\ commit = Hash(i)
                  /\ request # NoRequest => request.commit = Hash(i)
             /\ s_pc \in {"fetch", "done"}
             /\ s_outcome \in {"none", "fetched"}

C5_Witness ==
    /\ latest /\ listing.ok
    /\ Cardinality(MatchIndexes) = 2
    /\ l_result.commit = "c_head"
    /\ request # NoRequest /\ request.commit = Hash(1)

DefaultPorts == {80, 443}

Normalized(u) ==
    u.scheme = "https" /\ u.cred = "" /\ u.host # "" /\ u.port \notin DefaultPorts

\* C6: whenever a results fetch is issued its target is fully populated
\* (origin, giturl, branch, commit) and its giturl is in normalized form
\* (https, no credentials, no default port), however the target was resolved.
C6_FetchTargetPopulatedAndNormalized ==
    request # NoRequest =>
        /\ Truthy(request.origin)
        /\ request.git_url # NoUrl
        /\ Truthy(request.git_branch)
        /\ request.commit # "None"
        /\ Normalized(request.git_url)

-----------------------------------------------------------------------------
(* Claims on cmd_tests *)

ExpectedCount ==
    CASE status_filter = "pass" -> seen.pass
      [] status_filter = "fail" -> seen.fail
      [] status_filter = "inconclusive" -> seen.inconclusive
      [] status_filter = "all" -> seen.pass + seen.fail + seen.inconclusive

\* C7: in count mode without a filter file the count is the number of PASS
\* records for status=pass, of FAIL records for status=fail, of ERROR, SKIP,
\* MISS, DONE and NULL records for status=inconclusive and of all records
\* for status=all (4, 3, 3 and 10 for PASS x4, FAIL x3, ERROR x2, SKIP x1).
C7_CountByStatusClass ==
    (t_pc # "idle" /\ count /\ filter_data = NoFilter) =>
        /\ filtered_tests = ExpectedCount
        /\ seen.pass + seen.fail + seen.inconclusive = idx
        /\ t_outcome # "KeyError"
        /\ (t_pc = "done") => (idx = n_records /\ t_outcome = "ok")

C7_Witness ==
    /\ t_pc = "done" /\ count /\ filter_data = NoFilter
    /\ n_records = 10
    /\ seen = [pass |-> 4, fail |-> 3, inconclusive |-> 3]
    /\ status_filter = "inconclusive"
    /\ filtered_tests = 3

\* Whether a record's status belongs to the class the status filter names.
PassesStatus ==
    \/ status_filter = "all"
    \/ status_filter = "pass" /\ test.status = "PASS"
    \/ status_filter = "fail" /\ test.status = "FAIL"
    \/ status_filter = "inconclusive" /\ test.status \notin {"PASS", "FAIL"}

HardwareAllowed ==
    \/ test.platform \in filter_data.hardware
    \/ \E c \in {test.compat[i] : i \in 1..Len(test.compat)} :
          c \in filter_data.hardware

PathAllowed == test.path \in filter_data.test

\* The record taken last was counted, appended or printed.
Emitted ==
    IF count THEN filtered_tests > 0
    ELSE IF use_json THEN tests # <<>> /\ tests[Len(tests)].pos = idx
    ELSE printed # <<>> /\ printed[Len(printed)].pos = idx

NotEmitted ==
    /\ \A k \in 1..Len(tests) : tests[k].pos # idx
    /\ \A k \in 1..Len(printed) : printed[k].pos # idx
    /\ filtered_tests < idx

BothLists == filter_data.file /\ filter_data.keys = {"hardware", "test"}

\* C9: with a filter file that has both lists, a record that passes the status
\* filter survives iff (its platform or one of its compatibles is in the
\* hardware list) and its path is in the test list.
C9_BothListsGateSurvival ==
    (t_pc # "idle" /\ idx > 0 /\ BothLists) =>
        /\ t_outcome # "KeyError"
        /\ survived = (PassesStatus /\ HardwareAllowed /\ PathAllowed)
        /\ survived => Emitted
        /\ ~survived => NotEmitted
        /\ (PassesStatus /\ test.platform = "qemu-x86" /\ test.path = "boot")
              => survived
        /\ (test.platform = "qemu-arm" /\ test.compat = <<>>) => ~survived
        /\ (test.path = "network") => ~survived

C9_Witness ==
    /\ BothLists /\ idx = 2 /\ survived
    /\ test.platform = "qemu-arm" /\ test.compat = <<"qemu-x86">>
    /\ test.path = "boot" /\ test.status = "ERROR"
    /\ status_filter = "inconclusive"
    /\ ~count /\ use_json /\ Len(tests) = 1

\* C10: a record has to satisfy the sub-filters present in the filter file and
\* only those (only `hardware`: the hardware check alone; only `test`: the path
\* check alone; no file: none), and in each case the command completes with
\* a result.
C10_OnlyPresentSubFiltersGate ==
    (t_pc # "idle" /\ idx > 0) =>
        /\ (filter_data.file /\ filter_data.keys = {"hardware"}) =>
              /\ t_outcome # "KeyError"
              /\ survived = (PassesStatus /\ HardwareAllowed)
        /\ (filter_data.file /\ filter_data.keys = {"test"}) =>
              /\ t_outcome # "KeyError"
              /\ survived = (PassesStatus /\ PathAllowed)
        /\ ~filter_data.file =>
              /\ t_outcome # "KeyError"
              /\ survived = PassesStatus

-----------------------------------------------------------------------------
(* Claims on cmd_builds *)

Expected(v) ==
    \/ status = "all" /\ v # "None"
    \/ status = "pass" /\ v = "True"
    \/ status = "fail" /\ v = "False"

KeptBuilds == {i \in 1..Len(valids) : Expected(valids[i])}

Labelled(list) ==
    /\ {list[k].pos : k \in 1..Len(list)} = KeptBuilds
    /\ \A k \in 1..Len(list) :
          /\ valids[list[k].pos] # "None"
          /\ list[k].status = IF valids[list[k].pos] = "True" THEN "PASS"
                              ELSE "FAIL"
    /\ \A j, k \in 1..Len(list) : j < k => list[j].pos < list[k].pos

\* C8: a build with valid=null is never counted, listed or labelled, under
\* any status filter; the survivors are exactly the valid=true builds for
\* status=pass, the valid=false ones for status=fail and the non-null ones
\* for status=all, labelled PASS when valid is true and FAIL when false.
C8_NullBuildsNeverSurvive ==
    (b_pc # "idle") =>
        /\ Len(valids) = idx
        /\ filtered_builds = IF count THEN Cardinality(KeptBuilds) ELSE 0
        /\ IF count THEN builds = <<>> /\ printed = <<>>
           ELSE IF use_json THEN Labelled(builds) /\ printed = <<>>
           ELSE Labelled(printed) /\ builds = <<>>
        /\ (build = "None" /\ idx > 0) => log_path = "None"

C8_Witness ==
    /\ b_pc = "done" /\ status = "all" /\ ~count /\ use_json
    /\ valids = <<"None", "True", "False">>
    /\ Len(builds) = 2
    /\ builds[1].pos = 2 /\ builds[1].status = "PASS"
    /\ builds[2].pos = 3 /\ builds[2].status = "FAIL"

-----------------------------------------------------------------------------
(* Claims on the log download of cmd_builds and cmd_tests *)

LogFailures == {"get_failed", "gzip_failed", "write_failed"}

\* The command is still running, or it ended normally after the last record.
NotAborted ==
    /\ t_outcome \in {"none", "ok"} /\ b_outcome \in {"none", "ok"}
    /\ (t_pc = "done" \/ b_pc = "done") => idx = n_records

LogsOf(list) == {list[k].log : k \in 1..Len(list)}

LastLog(list) == list # <<>> /\ list[Len(list)].pos = idx
                    /\ list[Len(list)].log = log_path

\* C11: with download_logs, a failure at any step of one record's log
\* retrieval leaves its log reference at the remote log_url, does not abort
\* the command and does not stop the remaining records; the reference becomes
\* a local file only when every step succeeded.
C11_LogFailureKeepsUrlAndContinues ==
    (download_logs /\ idx > 0 /\ log_result # "None") =>
        /\ (log_result \in LogFailures) => (log_path = "log_url" /\ NotAborted)
        /\ (log_path = "file") = (log_result = "ok")
        /\ (~count /\ use_json /\ t_pc # "idle") => LastLog(tests)
        /\ (~count /\ use_json /\ b_pc # "idle") => LastLog(builds)
        /\ (~count /\ ~use_json) => LastLog(printed)
        /\ (t_pc = "loop" /\ idx < n_records) => ENABLED TestsStep
        /\ (b_pc = "loop" /\ idx < n_records) => ENABLED BuildsStep

C11_Witness ==
    /\ download_logs /\ ~count /\ use_json /\ t_pc = "done" /\ t_outcome = "ok"
    /\ idx = 2 /\ Len(tests) = 2
    /\ tests[1].log = "log_url" /\ tests[2].log = "file"
    /\ log_result = "ok"

-----------------------------------------------------------------------------
(* Claims on repository_url_cleaner *)

\* The path a remote names, as the path of a URL.
NamedPath == IF remote.form = "scp" THEN "/" \o remote.path ELSE remote.path

\* C12: repository_url_cleaner maps every remote, in URL form with any scheme
\* or in scp-like form, to an https URL that names the same host and path,
\* carries no user name or password, and carries a port only when the input
\* has a non-default one.
C12_CleanerNormalizesEveryRemote ==
    c_pc = "done" =>
        /\ cleaned.scheme = "https"
        /\ cleaned.cred = ""
        /\ cleaned.host = remote.host
        /\ cleaned.path = NamedPath
        /\ cleaned.port = IF remote.port \in DefaultPorts THEN 0 ELSE remote.port

====
